---- MODULE Spec2Model ----
(***************************************************************************)
(* The cannon-ball optimiser of src/main.rs: the kinematic simulator       *)
(* (simulate), the fitness evaluator (evaluate) and the generation loop of *)
(* main (rank, record a new best, carry two elites, mutate the rest).      *)
(*                                                                         *)
(* The program computes in f64.  The model computes in fixed point:        *)
(*   MetresPerSecond  centimetres per second   (1.0 m/s  = 100)            *)
(*   Radians          milliradians             (PI       = 3142)           *)
(*   Seconds          milliseconds             (0.01 s   = 10)             *)
(*   Metres, Fitness  micrometres              (10.0 m   = 10000000)       *)
(*   rng.gen::<f64>() hundredths in 0..99      (0.25     = 25)             *)
(* sin and cos are tabulated to three decimals on the grid of angles the   *)
(* model reaches.  Every product is rounded (floor) where the f64 product  *)
(* is rounded.                                                             *)
(***************************************************************************)
EXTENDS Integers, Sequences, FiniteSets, TLC

\* ------------------------------------------------------------------------
\* Bounds of the model
\* ------------------------------------------------------------------------

\* params.pop_size (25 in main): the number of firing plans per generation.
PopSize == 3

\* params.num_evaluations (3000 in main): the number of generations.
NumEvaluations == 3

\* Largest |t_at_wall| (ms) for which position() is evaluated in fixed point.
\* Beyond it the gravity term 0.5*G*t*t exceeds every v*t*sin the model can
\* reach (v <= 10 m/s gives y(t) < 0 for all t > 2.04 s), so the height at
\* the wall is negative or not a number, and is_positive is false.
MaxWallMs == 20000

\* ------------------------------------------------------------------------
\* Units and constants
\* ------------------------------------------------------------------------

\* core::f64::consts::PI in milliradians.
PI == 3142

\* PI / 2.0, the upper clamp of mutate.
HALF_PI == PI \div 2

\* const G: f64 = 9.81, in cm/s^2.
G == 981

Max(a, b) == IF a >= b THEN a ELSE b

Min(a, b) == IF a <= b THEN a ELSE b

\* floor(a * b / c) for c > 0 without forming a * b.
MulDiv(a, b, c) == (a \div c) * b + ((a % c) * b) \div c

\* a / b rounded toward zero, b # 0.
Quot(a, b) ==
    LET q == (IF a < 0 THEN -a ELSE a) \div (IF b < 0 THEN -b ELSE b)
    IN  IF (a < 0) = (b < 0) THEN q ELSE -q

\* f64::sin on the grid of angles, times 1000.
sin(a) ==
    CASE a = 0 -> 0       [] a = 100 -> 100   [] a = 285 -> 281
      [] a = 321 -> 316   [] a = 350 -> 343   [] a = 524 -> 500
      [] a = 535 -> 510   [] a = 571 -> 540   [] a = 600 -> 565
      [] a = 785 -> 707   [] a = 821 -> 732   [] a = 850 -> 751
      [] a = 1035 -> 860  [] a = 1071 -> 878  [] a = 1100 -> 891
      [] a = 1285 -> 959  [] a = 1321 -> 969  [] a = 1350 -> 976
      [] a = 1535 -> 999  [] a = 1571 -> 1000 [] a = 2356 -> 707

\* f64::cos on the grid of angles, times 1000.  cos(PI/2) is 6.1e-17 in f64
\* and 0 to three decimals.
cos(a) ==
    CASE a = 0 -> 1000    [] a = 100 -> 995   [] a = 285 -> 960
      [] a = 321 -> 949   [] a = 350 -> 939   [] a = 524 -> 866
      [] a = 535 -> 860   [] a = 571 -> 841   [] a = 600 -> 825
      [] a = 785 -> 707   [] a = 821 -> 681   [] a = 850 -> 660
      [] a = 1035 -> 511  [] a = 1071 -> 479  [] a = 1100 -> 454
      [] a = 1285 -> 282  [] a = 1321 -> 247  [] a = 1350 -> 219
      [] a = 1535 -> 36   [] a = 1571 -> 0    [] a = 2356 -> -707

\* ------------------------------------------------------------------------
\* FiringPlan
\* ------------------------------------------------------------------------

\* FiringPlan::new without assert!(angle > Radians(0.0)).
asserts_hold_angle_unchecked(velocity, angle) == velocity > 0 /\ angle < PI

\* The three assert! of FiringPlan::new.
asserts_hold(velocity, angle) == velocity > 0 /\ angle > 0 /\ angle < PI

\* FiringPlan { velocity, angle }
new(velocity, angle) == [velocity |-> velocity, angle |-> angle]

\* The arguments FiringPlan::random passes to new, for the draws u[1], u[2].
random_args(u) == <<100 + u[1], (u[2] * PI) \div 100>>

random(u) == new(random_args(u)[1], random_args(u)[2])

\* mutate without .max(0.1) on the velocity.
mutate_args_unclamped_velocity(plan, u) ==
    << plan.velocity + u[1] - 50,
       Min(Max(plan.angle + 10 * (u[2] - 50), 100), HALF_PI) >>

\* The arguments mutate passes to new, for the draws u[1], u[2].
mutate_args(plan, u) ==
    << Max(plan.velocity + u[1] - 50, 10),
       Min(Max(plan.angle + 10 * (u[2] - 50), 100), HALF_PI) >>

mutate(plan, u) == new(mutate_args(plan, u)[1], mutate_args(plan, u)[2])

\* ------------------------------------------------------------------------
\* simulate
\* ------------------------------------------------------------------------

\* is_positive with >= in place of >.
is_positive_or_zero(m) == m >= 0

\* Metres::is_positive
is_positive(m) == m > 0

\* The closure position of simulate: the coordinates at time t (ms).
position(p, t) ==
    LET vt == p.velocity * t * 10
    IN  [ x |-> MulDiv(vt, cos(p.angle), 1000),
          y |-> MulDiv(vt, sin(p.angle), 1000) - MulDiv(t * t, G, 200) ]

\* Seconds(params.wall_distance.0 / (p.velocity.0 * cos_theta)).  fin is
\* FALSE when the f64 quotient is infinite or NaN (the divisor is 0) and
\* when it lies beyond MaxWallMs.
t_at_wall(p, params) ==
    LET den == p.velocity * cos(p.angle)
        q   == Quot(params.wall_distance * 100, den)
    IN  IF den = 0 THEN [fin |-> FALSE, ms |-> 0]
        ELSE IF q > MaxWallMs \/ q < -MaxWallMs THEN [fin |-> FALSE, ms |-> q]
        ELSE [fin |-> TRUE, ms |-> q]

\* coords_at_wall.y.is_positive() && coords_at_wall.y < params.wall_height.
\* A NaN height (t_at_wall not finite) fails both comparisons.
did_hit_wall(p, params) ==
    LET tw == t_at_wall(p, params)
    IN  /\ tw.fin
        /\ is_positive(position(p, tw.ms).y)
        /\ position(p, tw.ms).y < params.wall_height

\* The while condition without its full-arc disjunct: sampling stops at the
\* wall whether or not the ball is within the wall's extent there.
loop_cond_wall_only(hit, tw, t, y) ==
    t = 0 \/ (tw.fin /\ t < tw.ms)

\* The while condition of simulate.

loop_cond(hit, tw, t, y) ==
    t = 0 \/ (hit /\ t < tw.ms) \/ (~hit /\ is_positive(y))

RECURSIVE sample_loop(_, _, _, _, _, _, _)
\* The while loop of simulate, from the state (t, y, path).
sample_loop(p, params, hit, tw, t, y, path) ==
    IF loop_cond(hit, tw, t, y)
    THEN LET t2     == t + params.simulation_step_size
             coords == position(p, t2)
         IN  sample_loop(p, params, hit, tw, t2, coords.y, Append(path, coords))
    ELSE path

\* simulate(p, params) -> Trajectory
simulate(p, params) ==
    sample_loop(p, params, did_hit_wall(p, params), t_at_wall(p, params),
                0, 0, <<>>)

\* Trajectory::distance
distance(traj) == IF traj = <<>> THEN 0 ELSE traj[Len(traj)].x

\* evaluate(p, params) -> Fitness
evaluate(p, params) == distance(simulate(p, params))

\* Trajectory::save: one row "x y" per sample, in order.
save(traj) == [i \in 1..Len(traj) |-> <<traj[i].x, traj[i].y>>]

\* ------------------------------------------------------------------------
\* main
\* ------------------------------------------------------------------------

\* let params = Params { ... } of main; the seed is replaced by the choice
\* of the draws.
params ==
    [ wall_height          |-> 25000000,
      wall_distance        |-> 10000000,
      simulation_step_size |-> 10,
      pop_size             |-> PopSize,
      num_evaluations      |-> NumEvaluations ]

\* The pairs of consecutive rng.gen::<f64>() values FiringPlan::random may
\* draw: (0.00, 0.25), (0.75, 0.75) and (0.50, 0.00).
InitDraws == { <<0, 25>>, <<75, 75>>, <<50, 0>> }

\* The pairs of consecutive rng.gen::<f64>() values mutate may draw:
\* (0.00, 0.00), (0.75, 0.75) and (0.75, 0.25).
MutDraws == { <<0, 0>>, <<75, 75>>, <<75, 25>> }

\* The closure of ps.iter().map(...): the Individual of a plan.
individual(plan) == [plan |-> plan, fitness |-> evaluate(plan, params)]

\* insert for the comparator a.fitness.partial_cmp(&b.fitness): ascending.
insert_ascending(sorted, e) ==
    LET k == Cardinality({i \in 1..Len(sorted) : sorted[i].fitness <= e.fitness})
    IN  SubSeq(sorted, 1, k) \o <<e>> \o SubSeq(sorted, k + 1, Len(sorted))

\* Insert e behind every element whose fitness is >= its own.
insert(sorted, e) ==
    LET k == Cardinality({i \in 1..Len(sorted) : sorted[i].fitness >= e.fitness})
    IN  SubSeq(sorted, 1, k) \o <<e>> \o SubSeq(sorted, k + 1, Len(sorted))

RECURSIVE sort_prefix(_, _)
\* The first n elements of inds, sorted.
sort_prefix(inds, n) ==
    IF n = 0 THEN <<>> ELSE insert(sort_prefix(inds, n - 1), inds[n])

\* pop.sort_by(|a, b| b.fitness.partial_cmp(&a.fitness).unwrap()): a stable
\* sort, fitness descending.
sort_by(inds) == sort_prefix(inds, Len(inds))

\* The Vec<Individual> of a generation, ranked.
ranked(plans) == sort_by([i \in 1..Len(plans) |-> individual(plans[i])])

\* next_plan mutating the plan one rank above the slot.
next_plan_shifted(ranking, i, d) ==
    IF i <= 2 THEN ranking[i].plan ELSE mutate(ranking[i - 1].plan, d)

\* The plan of slot i (1-based; the code's i is i - 1) of the next
\* generation, for the draws d of that slot.

next_plan(ranking, i, d) ==
    IF i <= 2 THEN ranking[i].plan ELSE mutate(ranking[i].plan, d)

\* The test of the best-ever update with != in place of >.
improves_or_differs(fitness, best) == fitness # best

\* The test of the best-ever update with >= in place of >.
improves_or_equal(fitness, best) == fitness >= best

\* best.fitness > best_fitness_to_date

improves(fitness, best) == fitness > best

VARIABLES
    pc,                    \* where main is: "start", "loop", "done", "panicked"
    r,                     \* the loop variable of for r in 0..num_evaluations
    ps,                    \* the population
    pop,                   \* the ranked Individuals of the latest generation
    drawn,                 \* slot -> the draws mutate made for it, latest generation
    best_fitness_to_date,
    stdout,                \* the println! lines, as <<r, fitness>>
    files,                 \* r -> the rows of traj/r.dat
    panicked,              \* "none", or what panicked: "new", "save"
    sim_pc,                \* where simulate is: "idle", "entry", "loop", "returned"
    sim_p,                 \* simulate's p
    sim_params,            \* simulate's params
    sim_t_at_wall,
    sim_did_hit_wall,
    t,
    y,
    path

main_vars == <<pc, r, ps, pop, drawn, best_fitness_to_date, stdout, files, panicked>>

sim_vars == <<sim_pc, sim_p, sim_params, sim_t_at_wall, sim_did_hit_wall, t, y, path>>

vars == <<main_vars, sim_vars>>

NoPlan == new(0, 0)

NoParams == [wall_height |-> 0, wall_distance |-> 0, simulation_step_size |-> 0]

MainIdle ==
    /\ pc = "idle" /\ r = 0 /\ ps = <<>> /\ pop = <<>> /\ drawn = <<>>
    /\ best_fitness_to_date = 0 /\ stdout = <<>> /\ files = <<>>
    /\ panicked = "none"

SimIdle ==
    /\ sim_pc = "idle" /\ sim_p = NoPlan /\ sim_params = NoParams
    /\ sim_t_at_wall = [fin |-> FALSE, ms |-> 0] /\ sim_did_hit_wall = FALSE
    /\ t = 0 /\ y = 0 /\ path = <<>>

\* main up to let mut best_fitness_to_date = Fitness(0.0).
Init ==
    /\ pc = "start" /\ r = 0 /\ ps = <<>> /\ pop = <<>> /\ drawn = <<>>
    /\ best_fitness_to_date = 0 /\ stdout = <<>> /\ files = <<>>
    /\ panicked = "none"
    /\ SimIdle

\* let mut ps = FiringPlan::randoms(&mut rng, params.pop_size): every plan
\* goes through FiringPlan::new, whose assert! panics.
Randoms ==
    /\ pc = "start"
    /\ \E d \in [1..PopSize -> InitDraws] :
         IF \A i \in 1..PopSize : asserts_hold(random_args(d[i])[1], random_args(d[i])[2])
         THEN /\ ps' = [i \in 1..PopSize |-> random(d[i])]
              /\ pc' = "loop"
              /\ panicked' = "none"
         ELSE /\ ps' = ps
              /\ pc' = "panicked"
              /\ panicked' = "new"
    /\ UNCHANGED <<r, pop, drawn, best_fitness_to_date, stdout, files, sim_vars>>

\* One iteration of for r in 0..params.num_evaluations in which traj.save
\* (if called) succeeds.
RunGeneration ==
    /\ pc = "loop" /\ r < NumEvaluations
    /\ \E ranking \in {ranked(ps)} :
       LET best == ranking[1]
       IN  /\ pop' = ranking
           /\ IF Len(ranking) > 0 /\ improves(best.fitness, best_fitness_to_date)
              THEN /\ best_fitness_to_date' = best.fitness
                   /\ stdout' = Append(stdout, <<r, best.fitness>>)
                   /\ \E traj \in {simulate(best.plan, params)} :
                         files' = (r :> save(traj)) @@ files
              ELSE UNCHANGED <<best_fitness_to_date, stdout, files>>
           /\ \E d \in [3..PopSize -> MutDraws] :
                /\ drawn' = d
                /\ IF \A i \in 3..PopSize :
                          asserts_hold(mutate_args(ranking[i].plan, d[i])[1],
                                       mutate_args(ranking[i].plan, d[i])[2])
                   THEN /\ ps' = [i \in 1..PopSize |-> next_plan(ranking, i, IF i \in DOMAIN d THEN d[i] ELSE <<>>)]
                        /\ r' = r + 1
                        /\ UNCHANGED <<pc, panicked>>
                   ELSE /\ pc' = "panicked"
                        /\ panicked' = "new"
                        /\ UNCHANGED <<ps, r>>
    /\ UNCHANGED sim_vars

\* The iteration in which fs::write fails: expect("Save failed") panics.
SaveFailed ==
    /\ pc = "loop" /\ r < NumEvaluations
    /\ \E ranking \in {ranked(ps)} :
       LET best == ranking[1]
       IN  /\ Len(ranking) > 0 /\ improves(best.fitness, best_fitness_to_date)
           /\ pop' = ranking
           /\ best_fitness_to_date' = best.fitness
           /\ stdout' = Append(stdout, <<r, best.fitness>>)
    /\ pc' = "panicked"
    /\ panicked' = "save"
    /\ UNCHANGED <<r, ps, drawn, files, sim_vars>>

\* The for loop ends and main returns.
Finish ==
    /\ pc = "loop" /\ r = NumEvaluations
    /\ pc' = "done"
    /\ UNCHANGED <<r, ps, pop, drawn, best_fitness_to_date, stdout, files, panicked, sim_vars>>

Next == Randoms \/ RunGeneration \/ SaveFailed \/ Finish

Spec == Init /\ [][Next]_vars

\* ------------------------------------------------------------------------
\* simulate, statement by statement, on bounded inputs
\* ------------------------------------------------------------------------

\* Firing plans FiringPlan::new accepts: 10 m/s at PI/4, 5 m/s at PI/6,
\* 9.81 m/s at PI/6, 1 m/s at PI/4, 1 m/s straight up (PI/2, a value the
\* clamp of mutate produces) and 1.75 m/s backwards (3 PI/4).
SimPlans ==
    { new(1000, 785), new(500, 524), new(981, 524), new(100, 785),
      new(100, HALF_PI), new(175, 2356) }

\* Wall heights 0.03 m, 1 m, 25 m; wall distances -1 m, 0, 0.05 m, 3 m,
\* 8.5 m, 10 m; step sizes 0.01 s and 0.1 s.
SimEnvs ==
    [ wall_height          : {30000, 1000000, 25000000},
      wall_distance        : {-1000000, 0, 50000, 3000000, 8500000, 10000000},
      simulation_step_size : {10, 100} ]

SimInit ==
    /\ MainIdle
    /\ sim_pc = "entry"
    /\ sim_p \in SimPlans
    /\ sim_params \in SimEnvs
    /\ sim_t_at_wall = [fin |-> FALSE, ms |-> 0] /\ sim_did_hit_wall = FALSE
    /\ t = 0 /\ y = 0 /\ path = <<>>

\* simulate from its entry to the while: t_at_wall, did_hit_wall, and the
\* initial path, t and y.
SimEnter ==
    /\ sim_pc = "entry"
    /\ sim_t_at_wall' = t_at_wall(sim_p, sim_params)
    /\ sim_did_hit_wall' = did_hit_wall(sim_p, sim_params)
    /\ path' = <<>> /\ t' = 0 /\ y' = 0
    /\ sim_pc' = "loop"
    /\ UNCHANGED <<sim_p, sim_params, main_vars>>

\* One iteration of the while loop.
SimStep ==
    /\ sim_pc = "loop"
    /\ loop_cond(sim_did_hit_wall, sim_t_at_wall, t, y)
    /\ LET t2     == t + sim_params.simulation_step_size
           coords == position(sim_p, t2)
       IN  /\ t' = t2
           /\ y' = coords.y
           /\ path' = Append(path, coords)
    /\ UNCHANGED <<sim_pc, sim_p, sim_params, sim_t_at_wall, sim_did_hit_wall, main_vars>>

\* The while condition is false: simulate returns Trajectory(path).
SimReturn ==
    /\ sim_pc = "loop"
    /\ ~loop_cond(sim_did_hit_wall, sim_t_at_wall, t, y)
    /\ sim_pc' = "returned"
    /\ UNCHANGED <<sim_p, sim_params, sim_t_at_wall, sim_did_hit_wall, t, y, path, main_vars>>

SimNext == SimEnter \/ SimStep \/ SimReturn

SimSpec == SimInit /\ [][SimNext]_vars

\* ------------------------------------------------------------------------
\* Properties of simulate (checked under SimSpec)
\* ------------------------------------------------------------------------

\* The time (ms) of the i-th sample of the trajectory being built.
SampleTime(i) == i * sim_params.simulation_step_size

\* The height at the wall that simulate compares, when t_at_wall is finite.
HeightAtWall == position(sim_p, sim_t_at_wall.ms).y

\* C2: when simulate takes the wall branch, every sample of the returned
\* trajectory is taken at a time t <= t_at_wall, and the last sample's
\* horizontal coordinate (the fitness evaluate returns) is <= wall_distance.
C2_WallBranchStopsAtWall ==
    (sim_pc = "returned" /\ sim_did_hit_wall) =>
        /\ \A i \in 1..Len(path) : SampleTime(i) <= sim_t_at_wall.ms
        /\ distance(path) <= sim_params.wall_distance

StoppedAtWall ==
    /\ Len(path) >= 1
    /\ SampleTime(Len(path)) >= sim_t_at_wall.ms
    /\ \A i \in 1..(Len(path) - 1) : SampleTime(i) < sim_t_at_wall.ms

\* The samples stop at the first one whose height is not positive.
StoppedAtGround ==
    /\ Len(path) >= 1
    /\ path[Len(path)].y <= 0
    /\ \A i \in 1..(Len(path) - 1) : path[i].y > 0

C5_FullArcToGround ==
    (sim_pc = "returned" /\ ~sim_did_hit_wall) =>
        /\ StoppedAtGround
        /\ \A i \in 1..Len(path) : path[i] = position(sim_p, SampleTime(i))
        /\ \A e \in SimEnvs :
              ( /\ e.wall_height = sim_params.wall_height
                /\ e.simulation_step_size = sim_params.simulation_step_size
                /\ ~did_hit_wall(sim_p, e) ) => simulate(sim_p, e) = path

\* C5 witness: a full arc of several samples has been returned, and another
\* wall_distance takes the full-arc branch as well.
C5_Witness ==
    /\ sim_pc = "returned" /\ ~sim_did_hit_wall
    /\ Len(path) > 2
    /\ \E e \in SimEnvs :
          /\ e.wall_height = sim_params.wall_height
          /\ e.simulation_step_size = sim_params.simulation_step_size
          /\ e.wall_distance # sim_params.wall_distance
          /\ e.wall_distance > 0 /\ sim_params.wall_distance > 0
          /\ ~did_hit_wall(sim_p, e)

\* C9: simulate returns no trajectory when wall_distance <= 0 or
\* cos(angle) = 0; it signals a failure instead.
C9_DegenerateInputRejected ==
    sim_pc = "returned" =>
        ~(sim_params.wall_distance <= 0 \/ cos(sim_p.angle) = 0)

\* ------------------------------------------------------------------------
\* Properties of main (checked under Spec)
\* ------------------------------------------------------------------------

\* A generation has been ranked.
Ranked == pop # <<>>

\* An iteration of the for loop has completed and main has not panicked.
GenerationDone == pc \in {"loop", "done"} /\ r >= 1

\* C1: best_fitness_to_date never decreases from one generation to the
\* next, and is never below its initial value 0.
C1_BestNonDecreasing ==
    /\ [](best_fitness_to_date >= 0)
    /\ [][best_fitness_to_date' >= best_fitness_to_date]_vars

\* C1 witness: main has finished after best_fitness_to_date rose twice.
C1_Witness ==
    /\ pc = "done"
    /\ Len(stdout) >= 2
    /\ best_fitness_to_date > stdout[1][2]
    /\ stdout[1][2] > 0

\* C3: every plan that is a member of the population, in generation 0 and
\* in every later generation, has velocity > 0 and 0 < angle < PI.
C3_PopulationValid ==
    /\ \A i \in DOMAIN ps :
          ps[i].velocity > 0 /\ 0 < ps[i].angle /\ ps[i].angle < PI
    /\ \A i \in DOMAIN pop :
          pop[i].plan.velocity > 0 /\ 0 < pop[i].plan.angle /\ pop[i].plan.angle < PI

\* C3 witness: a population of a later generation that holds a random plan
\* pointing backwards next to a mutated plan at the upper clamp PI/2.
C3_Witness ==
    /\ GenerationDone
    /\ \E i \in DOMAIN ps : ps[i].angle > HALF_PI
    /\ \E i \in DOMAIN ps : i >= 3 /\ ps[i].angle = HALF_PI

\* rk is a fitness-descending ranking of the individuals of plans.
IsRanking(rk, plans) ==
    /\ Len(rk) = Len(plans)
    /\ \A i \in DOMAIN rk : rk[i] = individual(rk[i].plan)
    /\ \A i, j \in DOMAIN rk : i < j => rk[i].fitness >= rk[j].fitness
    /\ \A i \in DOMAIN plans :
          Cardinality({j \in DOMAIN rk : rk[j].plan = plans[i]})
              = Cardinality({j \in DOMAIN plans : plans[j] = plans[i]})

\* The println! lines are strictly increasing in generation and in fitness.
StdoutIncreasing ==
    \A i, j \in DOMAIN stdout :
        i < j => (stdout[i][1] < stdout[j][1] /\ stdout[i][2] < stdout[j][2])

\* What C6 says of one generation: pop' is the ranking made in this step.
RecordsIffImproved ==
    (pc = "loop" /\ r < NumEvaluations /\ pop' # <<>>) =>
        /\ IsRanking(pop', ps)
        /\ IF pop'[1].fitness > best_fitness_to_date
           THEN /\ best_fitness_to_date' = pop'[1].fitness
                /\ stdout' = Append(stdout, <<r, pop'[1].fitness>>)
                /\ \/ /\ r \notin DOMAIN files
                      /\ DOMAIN files' = DOMAIN files \cup {r}
                      /\ \E traj \in {simulate(pop'[1].plan, params)} :
                            files'[r] = save(traj)
                      /\ \A k \in DOMAIN files : files'[k] = files[k]
                   \/ files' = files /\ panicked' = "save"
           ELSE /\ best_fitness_to_date' = best_fitness_to_date
                /\ stdout' = stdout
                /\ files' = files

\* C6: in generation r the best-ever update, the print and the save happen
\* if and only if the top-ranked fitness is strictly greater than
\* best_fitness_to_date; then best_fitness_to_date becomes that fitness and
\* traj/r.dat holds the simulation of the top-ranked plan (or the write
\* fails and main panics); the recorded events are strictly increasing in
\* generation and in fitness; otherwise nothing is recorded.
C6_RecordIffStrictlyBetter ==
    /\ []StdoutIncreasing
    /\ [](DOMAIN files \subseteq {stdout[i][1] : i \in DOMAIN stdout})
    /\ [][RecordsIffImproved]_vars

\* C6 witness: main has finished, two generations were recorded and saved
\* and one generation recorded nothing.
C6_Witness ==
    /\ pc = "done"
    /\ Len(stdout) = 2
    /\ Cardinality(DOMAIN files) = 2
    /\ r >= 3

\* What C7 says of one completed generation.
ElitesAndMutants ==
    (pc = "loop" /\ r' = r + 1) =>
        /\ IsRanking(pop', ps)
        /\ Len(ps') = PopSize
        /\ ps'[1] = pop'[1].plan
        /\ ps'[2] = pop'[2].plan
        /\ \A i \in 3..PopSize : ps'[i] = mutate(pop'[i].plan, drawn'[i])

\* C7: slots 0 and 1 of the next generation hold the unmutated plans of
\* ranks 0 and 1, every slot i >= 2 holds mutate of the plan of rank i, and
\* the population has pop_size members in every generation.
C7_ElitesCopiedRestMutated ==
    /\ [](pc \in {"loop", "done"} => Len(ps) = PopSize)
    /\ [][ElitesAndMutants]_vars

\* C7 witness: a generation has completed whose two elites differ in
\* fitness and whose third slot differs from the plan it was mutated from.
C7_Witness ==
    /\ GenerationDone
    /\ pop[1].fitness > pop[2].fitness
    /\ pop[2].fitness > pop[3].fitness
    /\ ps[3] # pop[3].plan
    /\ ps[3] # pop[1].plan /\ ps[3] # pop[2].plan

\* C8: a mutated plan has velocity max(s + U1 - 0.5, 0.1) >= 0.1 and angle
\* (a + U2 - 0.5) clamped to [0.1, PI/2], and FiringPlan::new never panics
\* for it: new panics only in FiringPlan::randoms, before a population
\* exists.
C8_MutateClamps ==
    /\ GenerationDone =>
          \A i \in 3..PopSize :
              LET s  == pop[i].plan.velocity + drawn[i][1] - 50
                  a  == pop[i].plan.angle + 10 * (drawn[i][2] - 50)
              IN  /\ ps[i].velocity = (IF s > 10 THEN s ELSE 10)
                  /\ ps[i].velocity >= 10
                  /\ ps[i].angle = (IF a < 100 THEN 100 ELSE IF a > HALF_PI THEN HALF_PI ELSE a)
                  /\ 100 <= ps[i].angle /\ ps[i].angle <= HALF_PI
    /\ panicked = "new" => (ps = <<>> /\ pop = <<>>)

\* C8 witness: a mutation in which both lower clamps acted.
C8_Witness ==
    /\ GenerationDone
    /\ \E i \in 3..PopSize :
          /\ pop[i].plan.velocity + drawn[i][1] - 50 < 10
          /\ pop[i].plan.angle + 10 * (drawn[i][2] - 50) < 100
          /\ ps[i] = new(10, 100)

\* C10: the top-ranked fitness never decreases from one generation to the
\* next; after every generation best_fitness_to_date is max(0, top-ranked
\* fitness); and the top-ranked plan is still a member of the population.
C10_TopFitnessNonDecreasing ==
    /\ [][(Ranked /\ pop' # <<>>) => pop'[1].fitness >= pop[1].fitness]_vars
    /\ [](Ranked => best_fitness_to_date = Max(0, pop[1].fitness))
    /\ [](Ranked => \E i \in DOMAIN ps :
                       /\ ps[i] = pop[1].plan
                       /\ evaluate(ps[i], params) = pop[1].fitness
                       /\ \A j \in DOMAIN pop : pop[j].fitness <= pop[1].fitness)

\* C10 witness: a mutated plan became the top-ranked plan of the latest
\* generation, raised best_fitness_to_date, and is carried in slot 0.
C10_Witness ==
    /\ GenerationDone
    /\ Len(stdout) >= 2 /\ stdout[Len(stdout)][1] = r - 1
    /\ pop[1].plan.velocity > 100
    /\ pop[1].fitness = best_fitness_to_date
    /\ ps[1] = pop[1].plan

====
